---- MODULE Spec2Model ----
(***************************************************************************)
(* ApiService (services/apiService.ts, listed in README.md): a request     *)
(* primitive with a retry loop, run as a task of a PQueue with bounded     *)
(* concurrency, with a NodeCache in front of get().                        *)
(*                                                                         *)
(* One step of the model is one run-to-completion piece of the event loop: *)
(* a call of a public method up to its first await, the continuation of a  *)
(* task after its fetch settles, or the continuation after a backoff timer.*)
(***************************************************************************)
EXTENDS Integers, Sequences, FiniteSets, TLC

(***************************************************************************)
(* Bounds of the model.                                                    *)
(***************************************************************************)
MaxCalls == 3          \* verb calls made on the instance in one behaviour
MaxConcurrency == 2    \* config.queueConcurrency ranges over 1..MaxConcurrency
MaxRetries == 1        \* the retries argument of a direct request() call: 0..MaxRetries
MaxRetryCalls == 2     \* verb calls in one behaviour of the retry specification
MaxTime == 2           \* the clock runs over 0..MaxTime
StdTTL == 1            \* config.cache.stdTTL, in clock ticks
MaxInterceptors == 2   \* interceptors registered in one behaviour
MaxTokenSets == 2      \* setAuthToken calls in one behaviour
ConcurrentGets == 5    \* get() calls issued together in the burst scenario
BurstConcurrency == 2  \* queueConcurrency of the burst scenario
MaxSoloCalls == 1      \* verb calls where one request is followed on its own
MaxAttempts == 4       \* largest retries value given to a constructor or a request
MaxHitCalls == 4       \* get() calls where a cache hit meets a full queue

(***************************************************************************)
(* Program constants.                                                      *)
(***************************************************************************)
DefaultRetries == 3    \* request(..., retries = 3, ...)
DefaultBackoff == 300  \* request(..., backoff = 300)
DefaultConcurrency == 5 \* config.queueConcurrency || 5

(***************************************************************************)
(* JavaScript values that flow through the service.                        *)
(***************************************************************************)
Undefined == [type |-> "undefined", repr |-> "undefined"]
EmptyObject == [type |-> "object", repr |-> "{}"]
UserObject == [type |-> "object", repr |-> "{\"id\":1}"]
Zero == [type |-> "number", repr |-> "0"]

\* JavaScript truthiness, as `if (cachedResponse)` and `data ? ... : ...` use it.
Truthy(v) ==
    CASE v.type = "undefined" -> FALSE
      [] v.type = "number" -> v.repr # "0"
      [] v.type = "string" -> v.repr # ""
      [] OTHER -> TRUE

\* Faulty variant: every body parses to an empty object.
JsonParse_Blank(text) == [ok |-> TRUE, value |-> EmptyObject]

\* response.json(): the body text parsed as JSON; a text that is no JSON throws SyntaxError.
JsonParse(text) ==
    CASE text = "{\"id\":1}" -> [ok |-> TRUE, value |-> UserObject]
      [] text = "{}" -> [ok |-> TRUE, value |-> EmptyObject]
      [] text = "0" -> [ok |-> TRUE, value |-> Zero]
      [] OTHER -> [ok |-> FALSE, value |-> Undefined]

\* JSON.stringify(data) of the payloads the model posts.
JsonStringify(v) == v.repr

(***************************************************************************)
(* The transport: what one fetch(url, options) can settle with.            *)
(***************************************************************************)
Response(status, text, contentLength) ==
    [kind |-> "response", status |-> status, text |-> text, contentLength |-> contentLength]

FetchRejected == [kind |-> "reject", status |-> 0, text |-> "fetch failed", contentLength |-> "null"]

Responses ==
    { Response(200, "{\"id\":1}", "8"),
      Response(200, "0", "1"),
      Response(200, "", "0"),
      Response(204, "", "null"),
      Response(200, "<html>", "6"),
      Response(400, "email required", "14"),
      Response(404, "{}", "2"),
      Response(500, "boom", "4"),
      FetchRejected }

\* response.ok
Ok(resp) == resp.status >= 200 /\ resp.status <= 299

(***************************************************************************)
(* Errors (utils/errors.ts and the built-in ones fetch and json() throw).  *)
(***************************************************************************)
NoOutcome == [kind |-> "none", name |-> "", status |-> 0, message |-> "", value |-> Undefined]

Returned(v) == [kind |-> "value", name |-> "", status |-> 0, message |-> "", value |-> v]

Thrown(name, status, message) ==
    [kind |-> "error", name |-> name, status |-> status, message |-> message, value |-> Undefined]

\* new NetworkError(status, data): keeps the status and the data.
NetworkError(status, data) == Thrown("NetworkError", status, data)

\* new ValidationError(message)
ValidationError(message) == Thrown("ValidationError", 0, message)

(***************************************************************************)
(* Inputs of the public methods.                                           *)
(***************************************************************************)
Endpoints == {"users", "items"}
Methods == {"GET", "POST", "PUT", "DELETE"}
Payloads == {UserObject}
NoToken == "null"            \* private authToken: string | null = null
Tokens == {"tok123", "tok456", ""}
InterceptorKinds == {"tagA", "tagB", "throws"}

(***************************************************************************)
(* State.                                                                  *)
(***************************************************************************)
VARIABLES
    concurrency,    \* PQueue's concurrency option, fixed at construction
    authToken,      \* this.authToken
    interceptors,   \* this.interceptors, in registration order
    cache,          \* this.cache: endpoint -> entry of the NodeCache
    now,            \* the clock the NodeCache reads
    calls,          \* every verb call made so far, in call order, with its task's state
    queue,          \* PQueue's queue: ids of the tasks added and not yet started
    pendingCount,   \* PQueue's count of tasks started and not yet settled
    startOrder,     \* the tasks in the order PQueue started them, each with the
                    \* number of tasks it left waiting in the queue
    tokenSets,      \* number of setAuthToken calls made
    config,         \* the retries and backoff the constructor was given
    loggerFault     \* the logger method that throws when called, "none" for a sound logger

vars == <<concurrency, authToken, interceptors, cache, now, calls, queue,
          pendingCount, startOrder, tokenSets, config, loggerFault>>

NoEntry == [present |-> FALSE, v |-> Undefined, t |-> 0]
NoOptions == [method |-> "", auth |-> <<>>, tags |-> <<>>, body |-> "undefined"]

Ids == 1..Len(calls)

(***************************************************************************)
(* NodeCache, as get() and the constructor use it.                         *)
(***************************************************************************)
\* Faulty variant: entries never expire.
Expired_Never(entry, time) == FALSE

\* An entry is expired once its expiry time is before the clock.
Expired(entry, time) == entry.t < time

\* cache.get(key): the stored value, undefined for a missing or an expired key.
CacheGet(c, key, time) ==
    IF c[key].present /\ ~Expired(c[key], time) THEN c[key].v ELSE Undefined

\* cache.get deletes the key it finds expired.
CacheAfterGet(c, key, time) ==
    IF c[key].present /\ Expired(c[key], time) THEN [c EXCEPT ![key] = NoEntry] ELSE c

\* cache.set(key, value): stored with the standard TTL from now.
CacheSet(c, key, value, time) ==
    [c EXCEPT ![key] = [present |-> TRUE, v |-> value, t |-> time + StdTTL]]

(***************************************************************************)
(* The synchronous head of a task: options, interceptors, first fetch.     *)
(***************************************************************************)
\* Faulty variant: the token without its scheme.
AuthHeader_NoScheme(token) == IF token # NoToken /\ token # "" THEN <<token>> ELSE <<>>

\* headers.Authorization: `Bearer ${authToken}` when the token is truthy.
AuthHeader(token) == IF token # NoToken /\ token # "" THEN <<"Bearer", token>> ELSE <<>>

\* The options object before the interceptors run.
InitialOptions(method, data, token) ==
    [method |-> method,
     auth |-> AuthHeader(token),
     tags |-> <<>>,
     body |-> IF Truthy(data) THEN JsonStringify(data) ELSE "undefined"]

\* Faulty variant: what an interceptor throws is swallowed.
Intercept_NeverThrows(kind, options) ==
    CASE kind = "tagA" -> [ok |-> TRUE, options |-> [options EXCEPT !.tags = Append(@, "a")]]
      [] kind = "tagB" -> [ok |-> TRUE, options |-> [options EXCEPT !.tags = Append(@, "b")]]
      [] OTHER -> [ok |-> TRUE, options |-> options]

\* One interceptor applied to the options: a tagging interceptor returns the
\* options with its tag appended to a header; "throws" raises.
Intercept(kind, options) ==
    CASE kind = "tagA" -> [ok |-> TRUE, options |-> [options EXCEPT !.tags = Append(@, "a")]]
      [] kind = "tagB" -> [ok |-> TRUE, options |-> [options EXCEPT !.tags = Append(@, "b")]]
      [] OTHER -> [ok |-> FALSE, options |-> options]

\* Faulty variant: only the interceptor registered first is applied.
ApplyInterceptors_FirstOnly(chain, options) ==
    IF chain = <<>> THEN [ok |-> TRUE, options |-> options]
    ELSE Intercept(Head(chain), options)

\* for (const interceptor of this.interceptors) options = interceptor(options)
RECURSIVE ApplyInterceptors(_, _)
ApplyInterceptors(chain, options) ==
    IF chain = <<>> THEN [ok |-> TRUE, options |-> options]
    ELSE LET r == Intercept(Head(chain), options)
         IN IF r.ok THEN ApplyInterceptors(Tail(chain), r.options) ELSE r

\* A verb call as it enters the queue.
NewCall(op, method, endpoint, data, retries, backoff) ==
    [op |-> op, method |-> method, endpoint |-> endpoint, data |-> data,
     retries |-> retries, backoff |-> backoff,
     phase |-> "queued",      \* queued, fetching, backoff, done
     i |-> 0,                  \* the loop variable of the retry loop
     fetches |-> 0,            \* fetch calls made for this call
     waits |-> <<>>,           \* delays passed to setTimeout, in order
     options |-> NoOptions,    \* the options every fetch of this call is given
     sent |-> <<>>,            \* the options passed to fetch, one per fetch call
     seen |-> <<>>,            \* what the fetches settled with, in order
     tokenAtCall |-> authToken,  \* this.authToken when the verb method was called
     setsAtCall |-> tokenSets,   \* setAuthToken calls made before the verb method was called
     cached |-> FALSE,         \* answered from the cache
     outcome |-> NoOutcome]    \* what the caller's promise settled with

\* A get() answered from the cache: no task, no fetch.
CachedCall(endpoint, value) ==
    [NewCall("get", "GET", endpoint, Undefined, DefaultRetries, DefaultBackoff)
        EXCEPT !.phase = "done", !.cached = TRUE, !.outcome = Returned(value)]

\* What a logger method throws when it fails.
LoggerError == Thrown("LoggerError", 0, "logger failed")

\* logger.request / logger.response / logger.error: the call of method m throws.
LoggerThrows(m) == loggerFault = m

\* Faulty variant: the options are built from the token the instance had when
\* the verb method was called.
RunTask_TokenAtCall(c) ==
    LET r == ApplyInterceptors(interceptors, InitialOptions(c.method, c.data, c.tokenAtCall))
    IN IF ~r.ok
       THEN [c EXCEPT !.phase = "done",
                      !.outcome = Thrown("InterceptorError", 0, "interceptor failed")]
       ELSE IF 0 < c.retries
            THEN [c EXCEPT !.phase = "fetching", !.options = r.options,
                           !.fetches = 1, !.sent = <<r.options>>]
            ELSE [c EXCEPT !.phase = "done", !.options = r.options,
                           !.outcome = Returned(Undefined)]

\* The task body up to its first await: build the options, run the interceptors,
\* log the request, enter the retry loop and call fetch. A throwing interceptor
\* or logger.request rejects the task; a loop that never runs (retries <= 0)
\* returns undefined.
RunTask(c) ==
    LET r == ApplyInterceptors(interceptors, InitialOptions(c.method, c.data, authToken))
    IN IF ~r.ok
       THEN [c EXCEPT !.phase = "done",
                      !.outcome = Thrown("InterceptorError", 0, "interceptor failed")]
       ELSE IF LoggerThrows("request")
            THEN [c EXCEPT !.phase = "done", !.options = r.options,
                           !.outcome = LoggerError]
            ELSE IF 0 < c.retries
                 THEN [c EXCEPT !.phase = "fetching", !.options = r.options,
                                !.fetches = 1, !.sent = <<r.options>>]
                 ELSE [c EXCEPT !.phase = "done", !.options = r.options,
                                !.outcome = Returned(Undefined)]

(***************************************************************************)
(* PQueue: add, _tryToStartAnother and _next.                              *)
(***************************************************************************)
\* Faulty variant: admits a task when the slots are already full.
DoesConcurrentAllowAnother_OffByOne(pending, limit) == pending <= limit

\* Faulty variant: one slot is never given out.
DoesConcurrentAllowAnother_KeepsOneFree(pending, limit) == pending < limit - 1

\* _doesConcurrentAllowAnother
DoesConcurrentAllowAnother(pending, limit) == pending < limit

\* Faulty variant: hands out the task added last.
Dequeue_Lifo(q) == [job |-> q[Len(q)], rest |-> SubSeq(q, 1, Len(q) - 1)]

\* The queue hands out its tasks first in, first out.
Dequeue(q) == [job |-> Head(q), rest |-> Tail(q)]

\* Q is a record of calls, queue, pendingCount and startOrder.
\* _tryToStartAnother starts the next queued task when the concurrency allows;
\* a task that settles in its synchronous head frees its slot again (_next).
RECURSIVE TryToStartAnother(_)
TryToStartAnother(Q) ==
    IF Q.queue = <<>> \/ ~DoesConcurrentAllowAnother(Q.pendingCount, concurrency)
    THEN Q
    ELSE LET d == Dequeue(Q.queue)
             started == RunTask(Q.calls[d.job])
             Q1 == [calls |-> [Q.calls EXCEPT ![d.job] = started],
                    queue |-> d.rest,
                    pendingCount |-> Q.pendingCount + 1,
                    startOrder |-> Append(Q.startOrder,
                                           [job |-> d.job, left |-> Len(d.rest)])]
         IN IF started.phase = "done"
            THEN TryToStartAnother([Q1 EXCEPT !.pendingCount = @ - 1])
            ELSE Q1

\* Faulty variant: a settled task keeps its slot.
QueueNext_KeepsSlot(Q) == TryToStartAnother(Q)

\* _next(): one slot is free again, start another task.
QueueNext(Q) == TryToStartAnother([Q EXCEPT !.pendingCount = @ - 1])

\* queue.add(task)
QueueAdd(Q, call) ==
    TryToStartAnother([Q EXCEPT !.calls = Append(@, call),
                                !.queue = Append(@, Len(Q.calls) + 1)])

QueueState == [calls |-> calls, queue |-> queue, pendingCount |-> pendingCount,
               startOrder |-> startOrder]

SetQueue(Q) ==
    /\ calls' = Q.calls
    /\ queue' = Q.queue
    /\ pendingCount' = Q.pendingCount
    /\ startOrder' = Q.startOrder

(***************************************************************************)
(* The retry loop of request().                                            *)
(***************************************************************************)
\* Faulty variant: every successful response is parsed as JSON.
IsEmptyResponse_Never(resp) == FALSE

\* Faulty variant: only the status marks an empty response.
IsEmptyResponse_StatusOnly(resp) == resp.status = 204

\* contentLength === '0' || response.status === 204
IsEmptyResponse(resp) == resp.contentLength = "0" \/ resp.status = 204

\* The body the try block has in hand for a response that is ok.
ResponseData(resp) ==
    IF IsEmptyResponse(resp) THEN Returned(EmptyObject)
    ELSE IF JsonParse(resp.text).ok
         THEN Returned(JsonParse(resp.text).value)
         ELSE Thrown("SyntaxError", 0, "Unexpected token")

\* The try block of one attempt: what it returns or throws for what fetch settled
\* with. logger.response is called before the return, inside the try.
TryAttempt(resp) ==
    IF resp.kind = "reject" THEN Thrown("TypeError", 0, resp.text)
    ELSE IF ~Ok(resp)
         THEN IF resp.status = 400
              THEN ValidationError(resp.text)
              ELSE NetworkError(resp.status, resp.text)
         ELSE IF ResponseData(resp).kind = "value" /\ LoggerThrows("response")
              THEN LoggerError
              ELSE ResponseData(resp)

\* Faulty variant: a NetworkError is retried whatever the attempt.
ShouldRetry_Always(error, i, retries) == error.name = "NetworkError"

\* Faulty variant: retries whatever was thrown.
ShouldRetry_AnyError(error, i, retries) == i < retries - 1

\* Faulty variant: retries once more than the loop has attempts.
ShouldRetry_OffByOne(error, i, retries) == error.name = "NetworkError" /\ i < retries

\* error instanceof NetworkError && i < retries - 1
ShouldRetry(error, i, retries) == error.name = "NetworkError" /\ i < retries - 1

\* Faulty variant: the same delay before every retry.
BackoffDelay_Constant(backoff, i) == backoff

\* setTimeout(resolve, backoff * (i + 1))
BackoffDelay(backoff, i) == backoff * (i + 1)

\* The call after the fetch of its attempt settled with resp. The catch block
\* calls logger.error before it waits and before it rethrows.
AfterFetch(c, resp) ==
    LET out == TryAttempt(resp)
    IN IF out.kind = "error" /\ LoggerThrows("error")
       THEN [c EXCEPT !.phase = "done", !.seen = Append(@, resp), !.outcome = LoggerError]
       ELSE IF out.kind = "error" /\ ShouldRetry(out, c.i, c.retries)
            THEN [c EXCEPT !.phase = "backoff", !.seen = Append(@, resp),
                           !.waits = Append(@, BackoffDelay(c.backoff, c.i))]
            ELSE [c EXCEPT !.phase = "done", !.seen = Append(@, resp), !.outcome = out]

\* Faulty variant: every attempt builds its options afresh, from the token and
\* the interceptors of the moment.
AfterBackoff_RebuildsOptions(c) ==
    IF c.i + 1 < c.retries
    THEN [c EXCEPT !.phase = "fetching", !.i = @ + 1, !.fetches = @ + 1,
                   !.sent = Append(@, ApplyInterceptors(interceptors,
                                          InitialOptions(c.method, c.data, authToken)).options)]
    ELSE [c EXCEPT !.phase = "done", !.i = @ + 1, !.outcome = Returned(Undefined)]

\* The call after its backoff timer fired: i++, and the next attempt if i < retries.
AfterBackoff(c) ==
    IF c.i + 1 < c.retries
    THEN [c EXCEPT !.phase = "fetching", !.i = @ + 1, !.fetches = @ + 1,
                   !.sent = Append(@, c.options)]
    ELSE [c EXCEPT !.phase = "done", !.i = @ + 1, !.outcome = Returned(Undefined)]

\* Faulty variant: every verb stores what it was returned.
StoreResponse_AnyVerb(c, call, time) ==
    IF call.phase = "done" /\ call.outcome.kind = "value"
    THEN CacheSet(c, call.endpoint, call.outcome.value, time)
    ELSE c

\* Faulty variant: a response is stored only for an endpoint not cached yet.
StoreResponse_FirstWins(c, call, time) ==
    IF call.op = "get" /\ call.phase = "done" /\ call.outcome.kind = "value"
       /\ ~c[call.endpoint].present
    THEN CacheSet(c, call.endpoint, call.outcome.value, time)
    ELSE c

\* get() after `await this.request(...)`: a returned response is stored.
StoreResponse(c, call, time) ==
    IF call.op = "get" /\ call.phase = "done" /\ call.outcome.kind = "value"
    THEN CacheSet(c, call.endpoint, call.outcome.value, time)
    ELSE c

(***************************************************************************)
(* Construction.                                                           *)
(***************************************************************************)
\* A config without retries and backoff.
NoConfig == [supplied |-> FALSE, retries |-> 0, backoff |-> 0]

\* new ApiService({queueConcurrency: c, retries: cfg.retries, backoff: cfg.backoff}),
\* with the logger the module imports: the constructor reads baseUrl, cache and
\* queueConcurrency, and nothing else of its config.
ConstructedWith(c, cfg, fault) ==
    /\ concurrency = c
    /\ authToken = NoToken
    /\ interceptors = <<>>
    /\ cache = [e \in Endpoints |-> NoEntry]
    /\ now = 0
    /\ calls = <<>>
    /\ queue = <<>>
    /\ pendingCount = 0
    /\ startOrder = <<>>
    /\ tokenSets = 0
    /\ config = cfg
    /\ loggerFault = fault

\* new ApiService({queueConcurrency: c}), with a logger that does not throw.
Constructed(c) == ConstructedWith(c, NoConfig, "none")

\* A configured concurrency.
Init == \E c \in 1..MaxConcurrency : Constructed(c)

\* new ApiService(): the default concurrency.
InitDefault == Constructed(DefaultConcurrency)

(***************************************************************************)
(* The public methods.                                                     *)
(***************************************************************************)
\* request(method, endpoint, data, retries, backoff): the task is added to the queue.
Submit(op, method, endpoint, data, retries, backoff) ==
    /\ SetQueue(QueueAdd(QueueState, NewCall(op, method, endpoint, data, retries, backoff)))
    /\ UNCHANGED <<concurrency, authToken, interceptors, now, tokenSets, config, loggerFault>>

Request(method, endpoint, data, retries, backoff) ==
    /\ Submit("request", method, endpoint, data, retries, backoff)
    /\ UNCHANGED cache

\* Faulty variant: a cached value is found, and the request is queued all the same.
Get_QueuesHit(endpoint) ==
    /\ cache' = CacheAfterGet(cache, endpoint, now)
    /\ Submit("get", "GET", endpoint, Undefined, DefaultRetries, DefaultBackoff)

\* get(endpoint): a truthy cached value is returned at once; otherwise request('GET', endpoint).
Get(endpoint) ==
    LET cachedResponse == CacheGet(cache, endpoint, now)
    IN /\ cache' = CacheAfterGet(cache, endpoint, now)
       /\ IF Truthy(cachedResponse)
          THEN /\ calls' = Append(calls, CachedCall(endpoint, cachedResponse))
               /\ UNCHANGED <<concurrency, authToken, interceptors, now, queue,
                              pendingCount, startOrder, tokenSets, config, loggerFault>>
          ELSE Submit("get", "GET", endpoint, Undefined, DefaultRetries, DefaultBackoff)

Post(endpoint, data) ==
    /\ Submit("post", "POST", endpoint, data, DefaultRetries, DefaultBackoff)
    /\ UNCHANGED cache

Put(endpoint, data) ==
    /\ Submit("put", "PUT", endpoint, data, DefaultRetries, DefaultBackoff)
    /\ UNCHANGED cache

Delete(endpoint) ==
    /\ Submit("delete", "DELETE", endpoint, Undefined, DefaultRetries, DefaultBackoff)
    /\ UNCHANGED cache

SetAuthToken(token) ==
    /\ tokenSets < MaxTokenSets
    /\ authToken' = token
    /\ tokenSets' = tokenSets + 1
    /\ UNCHANGED <<concurrency, interceptors, cache, now, calls, queue, pendingCount,
                   startOrder, config, loggerFault>>

AddInterceptor(kind) ==
    /\ Len(interceptors) < MaxInterceptors
    /\ interceptors' = Append(interceptors, kind)
    /\ UNCHANGED <<concurrency, authToken, cache, now, calls, queue, pendingCount,
                   startOrder, tokenSets, config, loggerFault>>

(***************************************************************************)
(* The continuations of a task.                                            *)
(***************************************************************************)
\* The call id has settled: the queue starts another task, and a get() stores
\* the response it was returned.
Settle(id, call) ==
    /\ SetQueue(QueueNext([QueueState EXCEPT !.calls[id] = call]))
    /\ cache' = StoreResponse(cache, call, now)

\* Faulty variant: a call that goes into its backoff wait gives its slot back.
FetchSettles_FreesSlotInBackoff(id, resp) ==
    /\ id \in Ids
    /\ calls[id].phase = "fetching"
    /\ LET call == AfterFetch(calls[id], resp)
       IN IF call.phase = "done"
          THEN Settle(id, call)
          ELSE /\ SetQueue(QueueNext([QueueState EXCEPT !.calls[id] = call]))
               /\ UNCHANGED cache
    /\ UNCHANGED <<concurrency, authToken, interceptors, now, tokenSets, config, loggerFault>>

\* The fetch of call id settles with resp.
FetchSettles(id, resp) ==
    /\ id \in Ids
    /\ calls[id].phase = "fetching"
    /\ LET call == AfterFetch(calls[id], resp)
       IN IF call.phase = "done"
          THEN Settle(id, call)
          ELSE /\ calls' = [calls EXCEPT ![id] = call]
               /\ UNCHANGED <<cache, queue, pendingCount, startOrder>>
    /\ UNCHANGED <<concurrency, authToken, interceptors, now, tokenSets, config, loggerFault>>

\* The backoff timer of call id fires.
TimerFires(id) ==
    /\ id \in Ids
    /\ calls[id].phase = "backoff"
    /\ LET call == AfterBackoff(calls[id])
       IN IF call.phase = "done"
          THEN Settle(id, call)
          ELSE /\ calls' = [calls EXCEPT ![id] = call]
               /\ UNCHANGED <<cache, queue, pendingCount, startOrder>>
    /\ UNCHANGED <<concurrency, authToken, interceptors, now, tokenSets, config, loggerFault>>

\* Time passes.
Tick ==
    /\ now < MaxTime
    /\ now' = now + 1
    /\ UNCHANGED <<concurrency, authToken, interceptors, cache, calls, queue,
                   pendingCount, startOrder, tokenSets, config, loggerFault>>

(***************************************************************************)
(* The queue under load: more calls than slots, on one endpoint, with      *)
(* attempts that succeed or fail, verb calls (three attempts) and a direct *)
(* request with a single attempt.                                          *)
(***************************************************************************)
QueueResponses == { Response(200, "{\"id\":1}", "8"), Response(500, "boom", "4") }

NextQueue ==
    \/ Len(calls) < MaxCalls /\ Get("users")
    \/ Len(calls) < MaxCalls /\ Post("users", UserObject)
    \/ Len(calls) < MaxCalls /\ Delete("users")
    \/ Len(calls) < MaxCalls /\ Request("PUT", "users", UserObject, 1, DefaultBackoff)
    \/ \E id \in 1..MaxCalls, resp \in QueueResponses : FetchSettles(id, resp)
    \/ \E id \in 1..MaxCalls : TimerFires(id)

SpecQueue == Init /\ [][NextQueue]_vars

(***************************************************************************)
(* The retry loop: every kind of transport result, verb calls and direct   *)
(* requests with their own retries and backoff, on a default instance.     *)
(***************************************************************************)
RetryResponses ==
    { Response(200, "{\"id\":1}", "8"), Response(204, "", "null"), Response(200, "", "0"),
      Response(200, "<html>", "6"), Response(400, "email required", "14"),
      Response(404, "{}", "2"), Response(500, "boom", "4"), FetchRejected }

NextRetry ==
    \/ Len(calls) < MaxRetryCalls /\ Post("users", UserObject)
    \/ \E r \in 0..MaxRetries :
          Len(calls) < MaxRetryCalls /\ Request("DELETE", "users", Undefined, r, 100)
    \/ \E id \in 1..MaxRetryCalls, resp \in RetryResponses : FetchSettles(id, resp)
    \/ \E id \in 1..MaxRetryCalls : TimerFires(id)

SpecRetry == InitDefault /\ [][NextRetry]_vars

(***************************************************************************)
(* The cache: gets on two endpoints and writing verbs on one of them, on a *)
(* default instance, with bodies that are objects or the number 0, a       *)
(* failing status, and time passing.                                       *)
(***************************************************************************)
CacheResponses ==
    { Response(200, "{\"id\":1}", "8"), Response(200, "0", "1"),
      Response(204, "", "null"), Response(400, "email required", "14") }

NextCache ==
    \/ \E e \in Endpoints : Len(calls) < MaxCalls /\ Get(e)
    \/ Len(calls) < MaxCalls /\ Put("users", UserObject)
    \/ Len(calls) < MaxCalls /\ Delete("users")
    \/ \E id \in 1..MaxCalls, resp \in CacheResponses : FetchSettles(id, resp)
    \/ Tick

SpecCache == InitDefault /\ [][NextCache]_vars

(***************************************************************************)
(* A burst: ConcurrentGets calls of get('items') made together on a fresh  *)
(* instance, before any fetch settles, with a transport that succeeds.     *)
(***************************************************************************)
InitBurst == Constructed(BurstConcurrency)

BurstResponses == { Response(200, "{\"id\":1}", "8"), Response(204, "", "null") }

NextBurst ==
    \/ Len(calls) < ConcurrentGets /\ Get("items")
    \/ \E id \in 1..ConcurrentGets, resp \in BurstResponses :
          Len(calls) = ConcurrentGets /\ FetchSettles(id, resp)

SpecBurst == InitBurst /\ [][NextBurst]_vars

(***************************************************************************)
(* The auth token: tokens set before, between and while calls wait for a   *)
(* slot or for their next attempt, on an instance with few slots.          *)
(***************************************************************************)
AuthResponses == { Response(200, "{\"id\":1}", "8"), Response(500, "boom", "4") }

NextAuth ==
    \/ \E t \in Tokens : SetAuthToken(t)
    \/ Len(calls) < MaxRetryCalls /\ Post("users", UserObject)
    \/ \E id \in 1..MaxRetryCalls, resp \in AuthResponses : FetchSettles(id, resp)
    \/ \E id \in 1..MaxRetryCalls : TimerFires(id)

SpecAuth == Init /\ [][NextAuth]_vars

(***************************************************************************)
(* Interceptors: tagging and throwing interceptors registered before and   *)
(* during a request, on a default instance.                                *)
(***************************************************************************)
InterceptResponses == { Response(200, "{\"id\":1}", "8"), Response(500, "boom", "4") }

NextIntercept ==
    \/ \E kind \in InterceptorKinds : AddInterceptor(kind)
    \/ Len(calls) < MaxSoloCalls /\ Get("users")
    \/ Len(calls) < MaxSoloCalls /\ Post("users", UserObject)
    \/ \E id \in 1..MaxSoloCalls, resp \in InterceptResponses : FetchSettles(id, resp)
    \/ \E id \in 1..MaxSoloCalls : TimerFires(id)

SpecIntercept == InitDefault /\ [][NextIntercept]_vars

(***************************************************************************)
(* Failures among other requests: requests that fail validation, exhaust   *)
(* their attempts or meet a throwing interceptor, while other requests run *)
(* or wait for a slot.                                                     *)
(***************************************************************************)
FailureResponses ==
    { Response(200, "{\"id\":1}", "8"), Response(400, "email required", "14"),
      Response(500, "boom", "4") }

NextFailure ==
    \/ AddInterceptor("throws")
    \/ Len(calls) < MaxCalls /\ Post("users", UserObject)
    \/ Len(calls) < MaxCalls /\ Request("DELETE", "users", Undefined, 1, DefaultBackoff)
    \/ \E id \in 1..MaxCalls, resp \in FailureResponses : FetchSettles(id, resp)
    \/ \E id \in 1..MaxCalls : TimerFires(id)

SpecFailure == Init /\ [][NextFailure]_vars

(***************************************************************************)
(* A configured instance: retries and backoff given to the constructor,    *)
(* then verb calls whose attempts succeed or fail.                         *)
(***************************************************************************)
ConfigBackoffs == {100, 500}

InitConfigured ==
    \E r \in 1..MaxAttempts, b \in ConfigBackoffs :
        ConstructedWith(DefaultConcurrency,
                        [supplied |-> TRUE, retries |-> r, backoff |-> b], "none")

ConfigResponses == { Response(200, "{\"id\":1}", "8"), Response(500, "boom", "4") }

NextConfig ==
    \/ Len(calls) < MaxSoloCalls /\ Get("users")
    \/ Len(calls) < MaxSoloCalls /\ Post("users", UserObject)
    \/ Len(calls) < MaxSoloCalls /\ Put("users", UserObject)
    \/ Len(calls) < MaxSoloCalls /\ Delete("users")
    \/ \E id \in 1..MaxSoloCalls, resp \in ConfigResponses : FetchSettles(id, resp)
    \/ \E id \in 1..MaxSoloCalls : TimerFires(id)

SpecConfig == InitConfigured /\ [][NextConfig]_vars

(***************************************************************************)
(* A failing logger: one of the logger methods request() calls throws      *)
(* whenever it is called; verb calls whose attempts succeed or fail.       *)
(***************************************************************************)
LoggerFaults == {"none", "request", "response", "error"}

InitLogger == \E fault \in LoggerFaults : ConstructedWith(DefaultConcurrency, NoConfig, fault)

LoggerResponses ==
    { Response(200, "{\"id\":1}", "8"), Response(400, "email required", "14"),
      Response(500, "boom", "4") }

NextLogger ==
    \/ Len(calls) < MaxRetryCalls /\ Get("users")
    \/ Len(calls) < MaxRetryCalls /\ Post("users", UserObject)
    \/ \E id \in 1..MaxRetryCalls, resp \in LoggerResponses : FetchSettles(id, resp)
    \/ \E id \in 1..MaxRetryCalls : TimerFires(id)

SpecLogger == InitLogger /\ [][NextLogger]_vars

(***************************************************************************)
(* Long retry chains: direct requests with up to MaxAttempts attempts and  *)
(* verb calls, on a default instance, with attempts that succeed or fail.  *)
(***************************************************************************)
BackoffBases == {100, DefaultBackoff}

BackoffResponses ==
    { Response(200, "{\"id\":1}", "8"), Response(404, "{}", "2"), Response(500, "boom", "4") }

NextBackoff ==
    \/ Len(calls) < MaxSoloCalls /\ Post("users", UserObject)
    \/ \E r \in 1..MaxAttempts, b \in BackoffBases :
          Len(calls) < MaxSoloCalls /\ Request("GET", "users", Undefined, r, b)
    \/ \E id \in 1..MaxSoloCalls, resp \in BackoffResponses : FetchSettles(id, resp)
    \/ \E id \in 1..MaxSoloCalls : TimerFires(id)

SpecBackoff == InitDefault /\ [][NextBackoff]_vars

(***************************************************************************)
(* Progress: verb calls and single-attempt requests on an instance with    *)
(* few slots, where every fetch under way eventually settles and every     *)
(* backoff timer eventually fires.                                         *)
(***************************************************************************)
LiveResponses ==
    { Response(200, "{\"id\":1}", "8"), Response(400, "email required", "14"),
      Response(500, "boom", "4") }

NextLive ==
    \/ Len(calls) < MaxRetryCalls /\ Post("users", UserObject)
    \/ Len(calls) < MaxRetryCalls /\ Request("DELETE", "users", Undefined, 1, DefaultBackoff)
    \/ \E id \in 1..MaxRetryCalls, resp \in LiveResponses : FetchSettles(id, resp)
    \/ \E id \in 1..MaxRetryCalls : TimerFires(id)

\* fetch() settles and setTimeout fires: the event loop runs every continuation
\* that is ready.
FairLive ==
    \A id \in 1..MaxRetryCalls :
        /\ WF_vars(\E resp \in LiveResponses : FetchSettles(id, resp))
        /\ WF_vars(TimerFires(id))

SpecLive == Init /\ [][NextLive]_vars /\ FairLive

(***************************************************************************)
(* Cache hits under load: gets of one endpoint on an instance with few     *)
(* slots, so that a get finds the endpoint cached while every slot is      *)
(* taken and other gets wait.                                              *)
(***************************************************************************)
HitResponses == { Response(200, "{\"id\":1}", "8"), Response(400, "email required", "14") }

NextHit ==
    \/ Len(calls) < MaxHitCalls /\ Get("users")
    \/ \E id \in 1..MaxHitCalls, resp \in HitResponses : FetchSettles(id, resp)

SpecHit == Init /\ [][NextHit]_vars

(***************************************************************************)
(* Options over the life of a request: tokens set and tagging interceptors *)
(* registered before a post and between its attempts, on a default         *)
(* instance.                                                               *)
(***************************************************************************)
OptionsResponses == { Response(200, "{\"id\":1}", "8"), Response(500, "boom", "4") }

NextOptions ==
    \/ \E kind \in {"tagA", "tagB"} : AddInterceptor(kind)
    \/ \E t \in Tokens : SetAuthToken(t)
    \/ Len(calls) < MaxSoloCalls /\ Post("users", UserObject)
    \/ \E id \in 1..MaxSoloCalls, resp \in OptionsResponses : FetchSettles(id, resp)
    \/ \E id \in 1..MaxSoloCalls : TimerFires(id)

SpecOptions == InitDefault /\ [][NextOptions]_vars

(***************************************************************************)
(* Properties.                                                             *)
(***************************************************************************)
\* The tasks started and not yet settled.
Running == {id \in Ids : calls[id].phase \in {"fetching", "backoff"}}

\* The tasks added and not yet started.
Pending == {id \in Ids : calls[id].phase = "queued"}

\* The calls that went through the queue (a get() answered from the cache did not).
Tasks == {id \in Ids : ~calls[id].cached}

\* The ids of the tasks started so far, in start order.
Started == [k \in 1..Len(startOrder) |-> startOrder[k].job]

\* C1: in every reachable state the number of queue tasks that have started
\* and not yet completed is at most the queue's concurrency.
C1_RunningAtMostConcurrency == Cardinality(Running) <= concurrency

\* Every slot is taken and a task is waiting.
C1_Witness == Cardinality(Running) = concurrency /\ Pending # {}

\* Ids are given in submission order: a started task has no earlier task still waiting,
\* and the tasks were started in increasing order of submission.
StartedInSubmissionOrder ==
    /\ \A a \in Tasks, b \in Tasks :
          a < b /\ calls[b].phase # "queued" => calls[a].phase # "queued"
    /\ \A j \in 1..Len(startOrder), k \in 1..Len(startOrder) :
          j < k => startOrder[j].job < startOrder[k].job

\* A step in which a running task settles while tasks wait starts the
\* earliest-submitted waiting task, and that one first.
FreedSlotGoesToEarliest ==
    \A id \in Running :
        calls'[id].phase = "done" /\ Pending # {} =>
            LET earliest == CHOOSE p \in Pending : \A q \in Pending : p <= q
            IN /\ Len(startOrder') > Len(startOrder)
               /\ startOrder'[Len(startOrder) + 1].job = earliest
               /\ calls'[earliest].phase # "queued"

\* C2: queue tasks begin execution in submission order, and when a running task
\* completes, by success or by failure, while tasks are pending, the freed slot
\* goes to the earliest-submitted pending task.
C2_FifoStart == []StartedInSubmissionOrder /\ [][FreedSlotGoesToEarliest]_vars

\* With one slot, a task failed and the task started next was taken from a queue
\* in which it left another task waiting.
C2_Witness ==
    /\ concurrency = 1
    /\ \E k \in 2..Len(startOrder) :
          /\ startOrder[k].left >= 1
          /\ calls[startOrder[k - 1].job].outcome.kind = "error"

Last(seq) == seq[Len(seq)]

\* An HTTP response with a status outside 200..299 other than 400.
RetryableStatus(resp) == resp.kind = "response" /\ ~Ok(resp) /\ resp.status # 400

\* A 400 is the last thing a call sees: it ends the call with a ValidationError
\* whose message is the response text, after as many fetches as responses seen.
ValidationFailsAtOnce ==
    \A id \in Ids : \A k \in 1..Len(calls[id].seen) :
        calls[id].seen[k].kind = "response" /\ calls[id].seen[k].status = 400 =>
            /\ k = Len(calls[id].seen)
            /\ calls[id].phase = "done"
            /\ calls[id].fetches = k
            /\ calls[id].outcome.kind = "error"
            /\ calls[id].outcome.name = "ValidationError"
            /\ calls[id].outcome.message = calls[id].seen[k].text

\* A call ended by a 400 never changes again.
ValidationIsFinal ==
    \A id \in Ids :
        calls[id].seen # <<>> /\ Last(calls[id].seen).status = 400 =>
            calls'[id] = calls[id]

\* C3: a 400 fails the request at once with a ValidationError carrying the
\* response text, and no further transport call is made for it, on whichever
\* attempt the 400 arrives and whatever attempts remain; a request whose first
\* response is 400 makes exactly one transport call.
C3_ValidationNotRetried == []ValidationFailsAtOnce /\ [][ValidationIsFinal]_vars

\* A 400 received on a retry, with an attempt still left.
C3_Witness ==
    \E id \in Ids :
        /\ Len(calls[id].seen) >= 2
        /\ Last(calls[id].seen).status = 400
        /\ Len(calls[id].seen) < calls[id].retries

\* C4: a request with retries = n >= 1 whose every transport call returns a
\* non-2xx status other than 400 makes exactly n transport calls and then fails
\* with a NetworkError carrying the status and the text of the last call.
C4_ExhaustedRetriesFail ==
    \A id \in Ids :
        /\ calls[id].retries >= 1
        /\ calls[id].seen # <<>>
        /\ \A k \in 1..Len(calls[id].seen) : RetryableStatus(calls[id].seen[k])
        => /\ calls[id].fetches <= calls[id].retries
           /\ calls[id].phase = "done" =>
                /\ calls[id].fetches = calls[id].retries
                /\ Len(calls[id].seen) = calls[id].retries
                /\ calls[id].outcome.kind = "error"
                /\ calls[id].outcome.name = "NetworkError"
                /\ calls[id].outcome.status = Last(calls[id].seen).status
                /\ calls[id].outcome.message = Last(calls[id].seen).text

\* Three failed attempts, the last with another status than the first.
C4_Witness ==
    \E id \in Ids :
        /\ calls[id].phase = "done"
        /\ calls[id].retries = DefaultRetries
        /\ calls[id].outcome.name = "NetworkError"
        /\ calls[id].seen[1].status # Last(calls[id].seen).status

\* A step in which the fetch of a call settles with an HTTP response: a wait of
\* backoff * (i + 1) follows a retryable status with an attempt left, and nothing
\* else; a step in which a wait ends starts attempt i + 1.
WaitsAfterRetryableOnly ==
    \A id \in Ids :
        /\ calls[id].phase = "fetching" /\ calls'[id].phase # "fetching" =>
              LET resp == Last(calls'[id].seen)
              IN IF RetryableStatus(resp) /\ calls[id].i < calls[id].retries - 1
                 THEN /\ calls'[id].phase = "backoff"
                      /\ calls'[id].waits =
                            Append(calls[id].waits, calls[id].backoff * (calls[id].i + 1))
                 ELSE resp.kind = "response" =>
                      /\ calls'[id].phase = "done"
                      /\ calls'[id].waits = calls[id].waits
        /\ calls[id].phase = "backoff" /\ calls'[id] # calls[id] =>
              /\ calls'[id].phase = "fetching"
              /\ calls'[id].i = calls[id].i + 1
              /\ calls'[id].fetches = calls[id].fetches + 1
              /\ calls'[id].waits = calls[id].waits

\* Attempt i is under way only after i waits, and waits are made nowhere else.
AttemptFollowsItsWait ==
    \A id \in Ids :
        /\ calls[id].phase = "fetching" =>
              Len(calls[id].waits) = calls[id].i /\ calls[id].fetches = calls[id].i + 1
        /\ calls[id].phase = "backoff" => Len(calls[id].waits) = calls[id].i + 1
        /\ Len(calls[id].waits) <= Len(calls[id].seen)

C6_TransportFailureRetried ==
    \A id \in Ids :
        /\ calls[id].phase = "done"
        /\ calls[id].seen # <<>>
        /\ Last(calls[id].seen).kind = "reject"
        => Len(calls[id].seen) = calls[id].retries

\* This step is a call of get(e): it adds a call record of a get on e.
IsGetCall(e) ==
    /\ Len(calls') = Len(calls) + 1
    /\ calls'[Len(calls')].op = "get"
    /\ calls'[Len(calls')].endpoint = e

\* The time at which the entry of e was stored.
InsertedAt(e) == cache[e].t - StdTTL

\* A get(e) made while an entry stored for e is younger than the TTL is answered
\* with the stored value, without a fetch.
GetWithinTtlIsServed ==
    \A e \in Endpoints :
        cache[e].present /\ now - InsertedAt(e) < StdTTL /\ IsGetCall(e) =>
            /\ calls'[Len(calls')].cached
            /\ calls'[Len(calls')].phase = "done"
            /\ calls'[Len(calls')].fetches = 0
            /\ calls'[Len(calls')].outcome = Returned(cache[e].v)

\* C7: for every endpoint and every body a successful transport call can return,
\* after get(endpoint) has succeeded a later get(endpoint) within the TTL window
\* returns the cached value and makes no transport call.
C7_CachedGetServed == [][GetWithinTtlIsServed]_vars

AllDone == \A id \in Ids : calls[id].phase = "done"

RECURSIVE SumFetches(_)
SumFetches(n) == IF n = 0 THEN 0 ELSE calls[n].fetches + SumFetches(n - 1)

\* Transport calls made so far on the instance.
TotalFetches == SumFetches(Len(calls))

\* C8 as claimed: ConcurrentGets (5) get('items') calls issued together on a fresh
\* instance make exactly 1 transport call in total and all callers receive the
\* identical payload.
C8_Original ==
    Len(calls) = ConcurrentGets /\ AllDone =>
        /\ TotalFetches = 1
        /\ \A a \in Ids, b \in Ids : calls[a].outcome = calls[b].outcome

\* C8 amended: get('items') calls issued together on a fresh instance all miss
\* the cache and each runs its own request: exactly one transport call per caller
\* (5 in total), never more than the concurrency (2) under way at once, and each
\* caller receives the payload of its own transport call.
C8_EachGetFetches ==
    /\ Cardinality(Running) <= BurstConcurrency
    /\ TotalFetches <= Len(calls)
    /\ Len(calls) = ConcurrentGets /\ AllDone =>
        /\ TotalFetches = ConcurrentGets
        /\ \A id \in Ids :
              /\ ~calls[id].cached
              /\ calls[id].fetches = 1
              /\ calls[id].outcome.kind = "value"
              /\ calls[id].seen[1].status = 204 => calls[id].outcome.value = EmptyObject
              /\ calls[id].seen[1].text = "{\"id\":1}" =>
                    calls[id].outcome.value = UserObject

\* All callers of the burst have their payloads, and two of them differ.
C8_Witness ==
    /\ Len(calls) = ConcurrentGets
    /\ AllDone
    /\ TotalFetches = ConcurrentGets
    /\ \E a \in Ids, b \in Ids : calls[a].outcome.value # calls[b].outcome.value

\* The entry of e as a read at the given time sees it.
Visible(c, e, time) ==
    IF c[e].present /\ time <= c[e].t THEN <<c[e].v, c[e].t>> ELSE <<>>

\* In this step the request of a get on e returned a value to get().
GetSucceeds(e) ==
    \E id \in Ids :
        /\ calls[id].op = "get" /\ calls[id].endpoint = e
        /\ calls[id].phase = "fetching"
        /\ calls'[id].phase = "done" /\ calls'[id].outcome.kind = "value"
        /\ cache'[e].present /\ cache'[e].v = calls'[id].outcome.value

\* In this step a post, put, delete or direct request is called or settles, or
\* the request of a get fails.
OtherVerbStep ==
    \/ /\ Len(calls') = Len(calls) + 1
       /\ calls'[Len(calls')].op # "get"
    \/ \E id \in Ids :
          /\ calls[id].phase # "done" /\ calls'[id].phase = "done"
          /\ calls[id].op # "get" \/ calls'[id].outcome.kind = "error"

CacheWrittenOnlyByGet ==
    /\ \A e \in Endpoints :
          Visible(cache', e, now') # Visible(cache, e, now') => GetSucceeds(e)
    /\ OtherVerbStep => cache' = cache
    /\ \A e \in Endpoints :
          IsGetCall(e) /\ calls'[Len(calls')].cached =>
              cache[e].present /\ calls'[Len(calls')].outcome.value = cache[e].v

\* C9: the cache changes only as the last step of a get whose request succeeded;
\* post, put, delete (successful or failed) and a failed get leave every entry
\* unchanged, so a get after a successful put on the same endpoint within the TTL
\* still returns the value cached earlier.
C9_OnlyGetWritesCache == [][CacheWrittenOnlyByGet]_vars

\* A put on 'users' returned another value than the one a get had cached there,
\* the entry still holds the get's value, and a later get was answered with it.
C9_Witness ==
    \E a \in Ids, b \in Ids, c \in Ids :
        /\ a < b /\ b < c
        /\ calls[a].op = "get" /\ calls[a].endpoint = "users" /\ ~calls[a].cached
        /\ calls[a].outcome.kind = "value"
        /\ calls[b].op = "put" /\ calls[b].endpoint = "users"
        /\ calls[b].outcome.kind = "value"
        /\ calls[b].outcome.value # calls[a].outcome.value
        /\ calls[c].op = "get" /\ calls[c].endpoint = "users" /\ calls[c].cached
        /\ calls[c].outcome.value = calls[a].outcome.value
        /\ cache["users"].present /\ cache["users"].v = calls[a].outcome.value

\* A get(e) made when more than the TTL has passed since the entry of e was stored
\* is not answered from the cache: its request is added to the queue and, with a
\* free slot, fetch is called.
GetAfterTtlFetches ==
    \A e \in Endpoints :
        cache[e].present /\ now - InsertedAt(e) > StdTTL /\ IsGetCall(e) =>
            /\ ~calls'[Len(calls')].cached
            /\ calls'[Len(calls')].outcome.kind = "none"
            /\ IF pendingCount < concurrency
               THEN calls'[Len(calls')].phase = "fetching" /\ calls'[Len(calls')].fetches = 1
               ELSE calls'[Len(calls')].phase = "queued"

\* C10: a get(endpoint) issued after the TTL of the entry cached for that endpoint
\* has elapsed does not return the expired value: it dispatches a request and the
\* transport is called again.
C10_ExpiredEntryRefetched == [][GetAfterTtlFetches]_vars

\* Two gets on one endpoint and nothing else: the first stored an object, the
\* second found the entry expired, removed it and is fetching.
C10_Witness ==
    /\ Len(calls) = 2
    /\ calls[1].op = "get" /\ calls[2].op = "get"
    /\ calls[1].endpoint = calls[2].endpoint
    /\ calls[1].outcome.kind = "value" /\ Truthy(calls[1].outcome.value)
    /\ calls[2].phase = "fetching" /\ calls[2].fetches = 1
    /\ cache[calls[1].endpoint] = NoEntry

\* The calls made since the token was last set (all calls, when it never was).
IssuedUnderCurrentToken == {id \in Ids : calls[id].setsAtCall = tokenSets}

\* C11 as stated: every transport call of a request issued after the latest
\* setAuthToken(t) carries Authorization: Bearer t, and no request carries the
\* header while no token was set.
C11_Original ==
    \A id \in IssuedUnderCurrentToken : \A k \in 1..Len(calls[id].sent) :
        calls[id].sent[k].auth =
            IF tokenSets = 0 THEN <<>> ELSE <<"Bearer", authToken>>

\* C11: every transport call of a request issued after the latest setAuthToken(t)
\* carries Authorization: Bearer t when t is not the empty string and no
\* Authorization header when it is; while no token was set no request carries
\* the header.
C11_BearerOfLatestToken ==
    \A id \in IssuedUnderCurrentToken : \A k \in 1..Len(calls[id].sent) :
        calls[id].sent[k].auth =
            IF tokenSets = 0 \/ authToken = "" THEN <<>> ELSE <<"Bearer", authToken>>

\* A request issued after the second setAuthToken has sent its second attempt
\* with the second token.
C11_Witness ==
    \E id \in IssuedUnderCurrentToken :
        /\ tokenSets = 2
        /\ authToken = "tok456"
        /\ Len(calls[id].sent) = 2
        /\ calls[id].sent[2].auth = <<"Bearer", "tok456">>
\* The tasks that leave the queue in this step.
StartsNow(id) ==
    /\ id \in 1..Len(calls')
    /\ ~calls'[id].cached
    /\ calls'[id].phase # "queued"
    /\ id \in Ids => calls[id].phase = "queued"

\* What a chain of tagging interceptors, applied once each in the order of the
\* chain, leaves in the tags header.
TagsInOrder(chain) == [k \in 1..Len(chain) |-> IF chain[k] = "tagA" THEN "a" ELSE "b"]

\* No interceptor of the chain throws.
AllTagging(chain) == \A k \in 1..Len(chain) : chain[k] \in {"tagA", "tagB"}

\* C12: the options sent to the transport are the method, body and auth header
\* of the call passed through the registered interceptors in registration
\* order, each receiving the previous one's output, and an interceptor
\* registered k times is applied k times.
C12_InterceptorsInOrder ==
    [][\A id \in 1..Len(calls') :
          StartsNow(id) /\ AllTagging(interceptors)
          => /\ calls'[id].sent =
                   << [method |-> calls'[id].method,
                       auth |-> <<>>,
                       tags |-> TagsInOrder(interceptors),
                       body |-> IF calls'[id].op = "post" THEN "{\"id\":1}"
                                ELSE "undefined"] >>
             /\ Len(calls'[id].sent[1].tags) = Len(interceptors)]_vars

\* A request went out through tagB and then tagA, and another through tagA twice.
C12_Witness ==
    \E id \in Ids :
        /\ calls[id].sent # <<>>
        /\ \/ interceptors = <<"tagB", "tagA">> /\ calls[id].sent[1].tags = <<"b", "a">>
           \/ interceptors = <<"tagA", "tagA">> /\ calls[id].sent[1].tags = <<"a", "a">>
\* The call failed with what its interceptor threw, before any fetch.
FailedInInterceptor(call) ==
    /\ call.phase = "done"
    /\ call.outcome.kind = "error"
    /\ call.outcome.name = "InterceptorError"
    /\ call.fetches = 0
    /\ call.sent = <<>>
    /\ call.waits = <<>>

\* C13: when an interceptor throws, the request fails with exactly that error,
\* no transport call is made for it, it is not retried, and a get writes
\* nothing to the cache.
C13_InterceptorFailureIsFinal ==
    [][\A id \in 1..Len(calls') :
          /\ StartsNow(id) /\ ~AllTagging(interceptors)
             => FailedInInterceptor(calls'[id]) /\ cache' = cache
          /\ id \in Ids /\ FailedInInterceptor(calls[id])
             => calls'[id] = calls[id]]_vars

\* A get whose second interceptor threw has failed, and its endpoint is not cached.
C13_Witness ==
    \E id \in Ids :
        /\ calls[id].op = "get"
        /\ FailedInInterceptor(calls[id])
        /\ interceptors = <<"tagA", "throws">>
        /\ ~cache[calls[id].endpoint].present
\* The call has ended with an error.
Failed(call) == call.phase = "done" /\ call.outcome.kind = "error"

\* The call id fails in this step.
FailsNow(id) == id \in 1..Len(calls') /\ Failed(calls'[id]) /\ (id \in Ids => ~Failed(calls[id]))

\* The error a call ended with is the one its own attempts produced.
OwnError(call) ==
    CASE call.outcome.name = "ValidationError" ->
            call.seen # <<>> /\ Last(call.seen).status = 400
                             /\ call.outcome.message = Last(call.seen).text
      [] call.outcome.name = "NetworkError" ->
            call.seen # <<>> /\ Last(call.seen).status = call.outcome.status
                             /\ Len(call.seen) = call.retries
      [] call.outcome.name = "InterceptorError" -> call.seen = <<>>
      [] OTHER -> FALSE

\* In this step the call id does not change, or takes a step of its own: its
\* own fetch settles or its own timer fires (and if it ends with an error, that
\* is its own), or it leaves the queue to run its own task.
LeftAlone(id) ==
    \/ calls'[id] = calls[id]
    \/ /\ calls[id].phase \in {"fetching", "backoff"}
       /\ \/ Len(calls'[id].seen) = Len(calls[id].seen) + 1
          \/ calls'[id].i = calls[id].i + 1
       /\ Failed(calls'[id]) => OwnError(calls'[id])
    \/ /\ calls[id].phase = "queued"
       /\ \/ calls'[id].phase = "fetching" /\ calls'[id].outcome = NoOutcome
          \/ FailedInInterceptor(calls'[id]) /\ ~AllTagging(interceptors)

\* C14: a request that fails (validation, exhausted network failure or
\* interceptor failure) gets the error its own attempts produced, gives its
\* slot back (no task waits while a slot is free), and leaves every other
\* request as it was or lets it start.
C14_FailureIsIsolated ==
    [][\A id \in 1..Len(calls') :
          FailsNow(id)
          => /\ OwnError(calls'[id])
             /\ \A other \in Ids \ {id} : LeftAlone(other)
             /\ pendingCount' = Cardinality({k \in 1..Len(calls') :
                                      calls'[k].phase \in {"fetching", "backoff"}})
             /\ \/ \A k \in 1..Len(calls') : calls'[k].phase # "queued"
                \/ pendingCount' = concurrency]_vars

\* With one slot: the first request exhausted its attempts, the second then ran
\* and succeeded, the third then met a throwing interceptor.
C14_Witness ==
    /\ concurrency = 1
    /\ Len(calls) = 3
    /\ Failed(calls[1]) /\ calls[1].outcome.name = "NetworkError" /\ calls[1].fetches = 3
    /\ calls[2].phase = "done" /\ calls[2].outcome.kind = "value"
    /\ FailedInInterceptor(calls[3])
\* The calls whose latest fetch settled with a 2xx response.
Answered2xx ==
    {id \in Ids : calls[id].seen # <<>> /\ Last(calls[id].seen).kind = "response"
                   /\ Last(calls[id].seen).status \in 200..299}

\* C15 as stated: a 2xx response ends the request as succeeded.
C15_Original ==
    \A id \in Answered2xx :
        calls[id].phase = "done" /\ calls[id].outcome.kind = "value"

\* C15: a 2xx response ends the request. With status 204 or content-length '0'
\* the result is an empty object whatever the body; otherwise the result is the
\* decoded body when the body is JSON, and the request fails with the parser's
\* SyntaxError, without another attempt, when it is not.
C15_SuccessResult ==
    \A id \in Answered2xx :
        LET call == calls[id]
            resp == Last(call.seen)
        IN /\ call.phase = "done"
           /\ call.fetches = Len(call.seen)
           /\ IF resp.status = 204 \/ resp.contentLength = "0"
              THEN call.outcome = Returned(EmptyObject)
              ELSE IF resp.text = "{\"id\":1}"
                   THEN call.outcome = Returned(UserObject)
                   ELSE /\ resp.text = "<html>"
                        /\ call.outcome.kind = "error"
                        /\ call.outcome.name = "SyntaxError"

\* One request got {} for a 200 with content-length '0' and an empty body, and
\* another got the decoded object of a 200.
C15_Witness ==
    \E a, b \in Answered2xx :
        /\ Last(calls[a].seen) = Response(200, "", "0")
        /\ calls[a].outcome = Returned(EmptyObject)
        /\ Last(calls[b].seen) = Response(200, "{\"id\":1}", "8")
        /\ calls[b].outcome = Returned(UserObject)
\* C16: the retries R and the backoff B given to the constructor govern the
\* calls made through get, post, put and delete: a call makes at most R
\* transport calls, fails only after R of them, and waits B * k before its
\* k-th retry.
C16_ConfigGovernsVerbs ==
    config.supplied =>
        \A id \in Ids :
            /\ calls[id].fetches <= config.retries
            /\ Failed(calls[id]) => calls[id].fetches = config.retries
            /\ \A k \in 1..Len(calls[id].waits) :
                   calls[id].waits[k] = config.backoff * k
C18_ExponentialBackoff ==
    \A id \in Ids : \A k \in 2..Len(calls[id].waits) :
        calls[id].waits[k] = 2 * calls[id].waits[k - 1]
\* The Authorization header that goes with a token.
BearerOf(token) == IF token = NoToken \/ token = "" THEN <<>> ELSE <<"Bearer", token>>

\* C19 as stated: the headers and the body a request sends are those of the
\* moment its verb method was called, whatever setAuthToken did while it waited.
C19_Original ==
    \A id \in Ids : \A k \in 1..Len(calls[id].sent) :
        /\ calls[id].sent[k].auth = BearerOf(calls[id].tokenAtCall)
        /\ calls[id].sent[k].body = "{\"id\":1}"

\* C19: the headers of a request are built when its task starts running, from
\* the token the instance has at that moment, and every later attempt sends
\* them unchanged; the body is that of the data the verb method was given.
C19_HeadersBuiltAtTaskStart ==
    [][\A id \in 1..Len(calls') :
          /\ StartsNow(id)
             => calls'[id].sent = << [method |-> "POST", auth |-> BearerOf(authToken),
                                      tags |-> <<>>, body |-> "{\"id\":1}"] >>
          /\ id \in Ids /\ calls[id].sent # <<>>
             => \A k \in 1..Len(calls'[id].sent) : calls'[id].sent[k] = calls[id].sent[1]]_vars

\* A request called before any token was set waited for a slot while
\* setAuthToken('tok123') was called, and sent Bearer tok123; then the token
\* was changed and its retry sent Bearer tok123 again.
C19_Witness ==
    \E id \in Ids :
        /\ calls[id].tokenAtCall = NoToken
        /\ authToken = "tok456"
        /\ Len(calls[id].sent) = 2
        /\ calls[id].sent[2].auth = <<"Bearer", "tok123">>
\* The latest response of the call is its first 2xx, and every response before
\* it was a retryable failure.
FirstSuccess(call) ==
    /\ call.seen # <<>>
    /\ Last(call.seen).kind = "response"
    /\ Last(call.seen).status \in 200..299
    /\ \A k \in 1..(Len(call.seen) - 1) : RetryableStatus(call.seen[k])

\* C20 as stated: the request whose attempt j is the first to get a 2xx has
\* succeeded after exactly j + 1 transport calls.
C20_Original ==
    \A id \in Ids :
        FirstSuccess(calls[id])
        => /\ calls[id].phase = "done"
           /\ calls[id].outcome.kind = "value"
           /\ calls[id].fetches = Len(calls[id].seen)

\* The call has ended after one transport call per response, having waited
\* once per failure, with the body of its last response: {} for an empty
\* response, the decoded object for a JSON body, SyntaxError otherwise.
EndedByLastResponse(call) ==
    LET resp == Last(call.seen)
    IN /\ call.phase = "done"
       /\ call.fetches = Len(call.seen)
       /\ Len(call.waits) = Len(call.seen) - 1
       /\ IF resp.status = 204 \/ resp.contentLength = "0"
          THEN call.outcome = Returned(EmptyObject)
          ELSE IF resp.text = "{\"id\":1}"
               THEN call.outcome = Returned(UserObject)
               ELSE call.outcome.kind = "error" /\ call.outcome.name = "SyntaxError"

\* C20: when attempt j is the first to get a 2xx, all earlier attempts having
\* failed with a retryable failure, the request ends after exactly j + 1
\* transport calls: it succeeds with that response's body when the body is JSON
\* or the response is empty, fails with the parser's error otherwise, and makes
\* no transport call after it.
C20_FirstSuccessEnds ==
    [][\A id \in 1..Len(calls') :
          /\ FirstSuccess(calls'[id]) => EndedByLastResponse(calls'[id])
          /\ id \in Ids /\ FirstSuccess(calls[id]) => calls'[id] = calls[id]]_vars

\* A post failed with 500 and with 404, and succeeded with the body of the 200
\* that its third transport call got.
C20_Witness ==
    \E id \in Ids :
        /\ calls[id].seen = << Response(500, "boom", "4"), Response(404, "{}", "2"),
                               Response(200, "{\"id\":1}", "8") >>
        /\ calls[id].outcome = Returned(UserObject)
        /\ calls[id].fetches = 3
        /\ calls[id].waits = <<300, 600>>
\* The request has reached a terminal state: it succeeded or it failed.
Terminal(call) == call.phase = "done" /\ call.outcome.kind \in {"value", "error"}

\* Every request made at most maxAttempts transport calls, and when all
\* requests are terminal the queue has no running and no pending task.
BoundedAndDrained ==
    /\ \A id \in Ids : calls[id].fetches <= calls[id].retries
    /\ (\A id \in Ids : Terminal(calls[id]))
       => pendingCount = 0 /\ queue = <<>> /\ Running = {} /\ Pending = {}

\* A terminal request never makes another transport call.
TerminalIsFinal ==
    \A id \in Ids : Terminal(calls[id]) => calls'[id] = calls[id]

\* C21: provided every transport call and every backoff wait eventually
\* completes, every submitted request eventually starts and eventually reaches
\* a terminal state (succeeded or failed) after at most maxAttempts transport
\* calls; once terminal it never makes another transport call, and when all
\* requests are terminal the queue has no running and no pending task.
C21_EveryRequestTerminates ==
    /\ []BoundedAndDrained
    /\ [][TerminalIsFinal]_vars
    /\ \A id \in 1..MaxRetryCalls :
          /\ (id \in Ids) ~> (id \in Ids /\ calls[id].phase # "queued")
          /\ (id \in Ids) ~> (id \in Ids /\ Terminal(calls[id]))

\* With one slot, two requests have ended, the second after its three
\* transport calls; all requests are terminal and the queue is empty.
C21_Witness ==
    /\ concurrency = 1
    /\ Len(calls) = 2
    /\ \A id \in Ids : Terminal(calls[id])
    /\ calls[1].fetches >= 1
    /\ calls[2].fetches = 3
    /\ Started = <<1, 2>>
    /\ pendingCount = 0 /\ queue = <<>>
\* get(e) is called in this step.
GetCalledNow(e) ==
    /\ Len(calls') = Len(calls) + 1
    /\ calls'[Len(calls')].op = "get"
    /\ calls'[Len(calls')].endpoint = e

\* C22: a get that hits the cache returns the cached value without submitting
\* a task to the queue: it completes in the call itself, also when every slot
\* is taken and other requests are pending, and it changes neither the running
\* count nor the pending list nor any other request.
C22_CacheHitBypassesQueue ==
    [][\A e \in Endpoints :
          GetCalledNow(e) /\ cache[e].present /\ cache[e].t >= now
          => /\ calls'[Len(calls')].phase = "done"
             /\ calls'[Len(calls')].outcome = Returned(cache[e].v)
             /\ calls'[Len(calls')].fetches = 0
             /\ queue' = queue
             /\ pendingCount' = pendingCount
             /\ startOrder' = startOrder
             /\ \A id \in Ids : calls'[id] = calls[id]]_vars

\* Every slot is taken, a get waits for one, and the latest get has been
\* answered from the cache.
C22_Witness ==
    /\ calls # <<>>
    /\ calls[Len(calls)].cached
    /\ calls[Len(calls)].phase = "done"
    /\ calls[Len(calls)].outcome = Returned(UserObject)
    /\ Cardinality(Running) = concurrency
    /\ Pending # {}
    /\ queue # <<>>
\* The tasks waiting for their backoff timer.
InBackoff == {id \in Ids : calls[id].phase = "backoff"}

\* C23: a request keeps its queue slot for its whole life, backoff waits
\* included: a step that puts a request into backoff changes neither the
\* pending count nor the queue, a waiting request starts only in a step in which
\* a running request succeeds or fails, and the requests in backoff count among
\* the at most c running ones.
C23_SlotHeldThroughBackoff ==
    [][/\ \A id \in Ids :
            /\ calls[id].phase = "fetching" /\ calls'[id].phase = "backoff"
               => pendingCount' = pendingCount /\ queue' = queue
            /\ calls[id].phase = "queued" /\ calls'[id].phase # "queued"
               => \E other \in Ids :
                     /\ calls[other].phase \in {"fetching", "backoff"}
                     /\ calls'[other].phase = "done"
       /\ Cardinality({id \in 1..Len(calls') :
                          calls'[id].phase \in {"fetching", "backoff"}}) = pendingCount'
       /\ pendingCount' <= concurrency]_vars

\* Every slot is held by a request in backoff, and a request waits for a slot.
C23_Witness ==
    /\ Cardinality(InBackoff) = concurrency
    /\ Pending # {}
    /\ pendingCount = concurrency
\* The call id makes a transport call in this step.
FetchesNow(id) ==
    /\ id \in 1..Len(calls')
    /\ calls'[id].fetches = (IF id \in Ids THEN calls[id].fetches ELSE 0) + 1

\* C24: the interceptor chain runs once per request, when its task starts and
\* before the first transport call, over the interceptors registered at that
\* moment: the first call carries one tag per interceptor then registered and
\* the header of the token then set. Every later attempt sends the same method,
\* headers and body to the same endpoint, whatever was registered or set since.
C24_OptionsFixedAtStart ==
    [][\A id \in 1..Len(calls') :
          /\ StartsNow(id)
             => /\ Len(calls'[id].sent) = 1
                /\ calls'[id].sent[1].tags = TagsInOrder(interceptors)
                /\ calls'[id].sent[1].auth = BearerOf(authToken)
          /\ FetchesNow(id)
             => /\ Len(calls'[id].sent) = calls'[id].fetches
                /\ calls'[id].sent[calls'[id].fetches] = calls'[id].sent[1]
                /\ calls'[id].sent[1].method = "POST"
                /\ calls'[id].sent[1].body = "{\"id\":1}"
          /\ id \in Ids
             => /\ calls'[id].endpoint = calls[id].endpoint
                /\ \A k \in 1..Len(calls[id].sent) : calls'[id].sent[k] = calls[id].sent[k]]_vars

\* A post made its third transport call with the one tag and no token of its
\* start, after a second interceptor was registered and a token was set.
C24_Witness ==
    \E id \in Ids :
        /\ Len(calls[id].sent) = 3
        /\ calls[id].sent[3].tags = <<"a">>
        /\ calls[id].sent[3].auth = <<>>
        /\ interceptors = <<"tagA", "tagB">>
        /\ authToken = "tok123"
\* The get id, which missed the cache, completes with a value in this step.
GetCompletesNow(id) ==
    /\ id \in Ids
    /\ calls[id].op = "get" /\ ~calls[id].cached
    /\ calls[id].phase # "done"
    /\ calls'[id].phase = "done" /\ calls'[id].outcome.kind = "value"

\* C25: gets of one endpoint that are in flight together each make their own
\* transport call, and each writes the cache when it completes: after a get
\* completes the entry of its endpoint holds its response, so that after all of
\* them the entry holds the response of the one that completed last.
C25_LastCompletedGetWins ==
    [][\A id \in Ids :
          GetCompletesNow(id)
          => /\ calls'[id].fetches >= 1
             /\ Len(calls'[id].seen) = calls'[id].fetches
             /\ cache'[calls[id].endpoint].present
             /\ cache'[calls[id].endpoint].v = calls'[id].outcome.value
             /\ calls'[id].outcome.value =
                   (IF Last(calls'[id].seen).status = 204 THEN EmptyObject ELSE UserObject)]_vars

\* All the gets have completed and the cache holds the response of the get that
\* was submitted and started first: the only one answered with the object, it
\* completed after all the others.
C25_Witness ==
    /\ Len(calls) = ConcurrentGets
    /\ AllDone
    /\ calls[1].outcome = Returned(UserObject)
    /\ \A id \in Ids \ {1} : calls[id].outcome = Returned(EmptyObject)
    /\ cache["items"].v = UserObject
\* The outcome is the one the response resp calls for: the value of a 2xx (or
\* the parser's error for its body), and the error raised for anything else.
OutcomeOf(outcome, resp) ==
    CASE resp.kind = "reject" ->
            outcome.kind = "error" /\ outcome.name = "TypeError"
      [] resp.kind = "response" /\ resp.status \in 200..299 ->
            \/ outcome.kind = "value" /\ outcome.value # Undefined
            \/ outcome.kind = "error" /\ outcome.name = "SyntaxError"
      [] resp.kind = "response" /\ resp.status = 400 ->
            /\ outcome.kind = "error" /\ outcome.name = "ValidationError"
            /\ outcome.message = resp.text
      [] OTHER ->
            /\ outcome.kind = "error" /\ outcome.name = "NetworkError"
            /\ outcome.status = resp.status /\ outcome.message = resp.text

\* C26: for maxAttempts >= 1 the retry loop never falls through: a completed
\* request made a transport call, and it returns the result of its last
\* transport call, which was a 2xx response, or raises the error produced by
\* its last attempt; it never completes with no value and no error, and never
\* raises the error of an earlier attempt.
C26_LoopNeverFallsThrough ==
    \A id \in Ids :
        calls[id].phase = "done" /\ calls[id].retries >= 1
        => /\ calls[id].seen # <<>>
           /\ calls[id].fetches = Len(calls[id].seen)
           /\ OutcomeOf(calls[id].outcome, Last(calls[id].seen))

\* A post answered 500, 500 and 404 has failed with the NetworkError of the 404.
C26_Witness ==
    \E id \in Ids :
        /\ calls[id].phase = "done"
        /\ calls[id].seen = << Response(500, "boom", "4"), Response(500, "boom", "4"),
                               Response(404, "{}", "2") >>
        /\ calls[id].outcome = NetworkError(404, "{}")
====
